---- MODULE Spec2Model ----
(***************************************************************************)
(* Histology-Collagen-Quantification: the tiled colour deconvolution       *)
(* stain_vector_separation_large (python/decon.py, collagen_quant.py),     *)
(* its sequential path and its pooled path on multiprocessing.Pool; and    *)
(* the CZI tile assemblers: image_read / read_tile (python/decon.py), the  *)
(* manual tile loop of collagen_quant (collagen_quant.py) and              *)
(* profile_sequential_loading (benchmark/profile_czi_loading.py), with     *)
(* the tile discovery of load_tile_bboxes                                  *)
(* (benchmark/visualize_tile_pattern.py); and the window generator         *)
(* iterate_over_regions (python/seg.py).                                   *)
(* Spec runs the deconvolution, SpecAsm the assemblers, SpecSeg the        *)
(* window generator.                                                       *)
(*                                                                         *)
(* Arrays are functions from <<row, col>> (0-based) to pixel levels; the   *)
(* channel axis is always taken whole (":") by the code and is not         *)
(* modelled.  A sub-array is a record [h, w, data] indexed from 0, as a    *)
(* numpy slice is.                                                         *)
(***************************************************************************)
EXTENDS Integers, Sequences, FiniteSets, TLC

\* ------------------------------------------------------------------ bounds
MaxRows == 2
MaxCols == 3
MaxTile == 2
MaxBatch == 2
MaxThreads == 2
MaxSeed == 0
MaxRaise == 1
PixelLevels == 3

VARIABLES
    n_rows, n_cols, tile_size, batch_size, threads, image,  \* the call's arguments
    imDeconvolved,            \* the output array
    pc,                       \* position of the calling thread
    row_start, col_start,     \* loop variables of the sequential path
    region_to_process,        \* list of (row_start,row_end,col_start,col_end)
    batch_count, batch_id, batch_size_, i,
    region_to_process_chuck,  \* materialized {tile, roi} of the super-batch
    submit_k,                 \* position of "for region in region_to_process_chuck"
    pbar,                     \* tqdm counter [n, total]
    mutex,                    \* threading.Lock [id, locked, owner]
    pool,                     \* multiprocessing.Pool [taskq, running, outq, cache]
    cb,                       \* the pool's result-handler thread [pc, res]
    printed,                  \* what callback_err printed
    returned,                 \* the values the call returned (<<>> before)
    failed, misshapen,        \* history: regions whose transform raised / mis-shaped
    materialized, submitted, completed,  \* history: tile indices
    \* --- the tile assemblers (image_read, collagen_quant, profile_sequential_loading)
    reader,                   \* which assembler runs
    n_workers,                \* multiprocessing.cpu_count()
    tle_bboxes,               \* the container's tile bounding boxes, in index order
    image_np,                 \* the canvas [w, h, data]
    origin,                   \* the offsets subtracted from a tile's x and y
    rpc,                      \* position of the assembler
    m,                        \* index of the tile the loop is at
    reads,                    \* imap: per tile "queued", "running" or its result
    results,                  \* imap: the results collected so far, in list order
    overtaken,                \* history: a read ended before the read of a tile listed earlier
    bad_reads,                \* history: tiles whose read raised or mis-shaped
    dests,                    \* history: <<tile, destination rectangle>> as computed
    written_tiles, skipped_tiles,   \* history: tiles assigned / skipped
    canvas_out,               \* the canvas the assembler returned (<<>> before)
    has_M,                    \* 'M' in image.get_dims_shape()[0]
    queried,                  \* history: tiles whose bounding box was asked for
    tile_bboxes,              \* the list load_tile_bboxes returned
    \* --- iterate_over_regions (python/seg.py)
    image_height, image_width,      \* image.shape[:2]
    seg_tile_size, overlap_size,    \* the arguments tile_size and overlap_size
    mask,                     \* "None", or "same_shape": an array of the image's shape
    debug,                    \* __debug__: assert statements are executed (no -O)
    gen,                      \* per request: the generator's frame [pc, y, x, exc]
    yielded                   \* per request: the tuples it has yielded, in order

args == <<n_rows, n_cols, tile_size, batch_size, threads, image>>
seqVars == <<row_start, col_start>>
planVars == <<region_to_process, batch_count>>
loopVars == <<batch_id, batch_size_, i, region_to_process_chuck, submit_k>>
histVars == <<failed, misshapen, materialized, submitted, completed>>
svsVars == <<args, imDeconvolved, pc, seqVars, planVars, loopVars, pbar, mutex,
            pool, cb, printed, returned, histVars>>
asmVars == <<reader, n_workers, tle_bboxes, image_np, origin, rpc, m, reads, results,
            overtaken, bad_reads, dests, written_tiles, skipped_tiles, canvas_out,
            has_M, queried, tile_bboxes>>
discVars == <<has_M, queried, tile_bboxes>>
segVars == <<image_height, image_width, seg_tile_size, overlap_size, mask, debug,
            gen, yielded>>
vars == <<svsVars, asmVars, segVars>>

\* ----------------------------------------------------------------- helpers
Min(a, b) == IF a < b THEN a ELSE b

\* Python's range(start, stop, step), step > 0, as a sequence.
RECURSIVE PyRange(_, _, _)
PyRange(start, stop, step) ==
    IF start >= stop THEN <<>>
    ELSE <<start>> \o PyRange(start + step, stop, step)

Cells(h, w) == (0 .. h - 1) \X (0 .. w - 1)

\* np.zeros_like(image)
zeros_like_copy(arr) == arr
zeros_like(arr) == [p \in DOMAIN arr |-> 0]

\* image[row_start:row_end, col_start:col_end, :]
Slice(arr, roi) ==
    LET h == roi[2] - roi[1]
        w == roi[4] - roi[3]
    IN  [h |-> h, w |-> w,
         data |-> [p \in Cells(h, w) |-> arr[<<roi[1] + p[1], roi[3] + p[2]>>]]]

InRoi(p, roi) == roi[1] <= p[1] /\ p[1] < roi[2] /\ roi[3] <= p[2] /\ p[2] < roi[4]

\* numpy raises ValueError unless the value has the shape of the target region.
ShapeFits(roi, tile) == tile.h = roi[2] - roi[1] /\ tile.w = roi[4] - roi[3]

\* imDeconvolved[row_start:row_end, col_start:col_end, :] = tile
SetRegion(arr, roi, tile) ==
    [p \in DOMAIN arr |->
        IF InRoi(p, roi) THEN tile.data[<<p[1] - roi[1], p[2] - roi[3]>>] ELSE arr[p]]

\* htk color_deconvolution(...).Stains: a pixel-wise map, never the identity.
StainOf(v) == 2 * v + 1
color_deconvolution(tile) ==
    [h |-> tile.h, w |-> tile.w, data |-> [p \in DOMAIN tile.data |-> StainOf(tile.data[p])]]

\* A transform result whose shape is not that of its input (one column more).
MisshapenStains(tile) ==
    [h |-> tile.h, w |-> tile.w + 1, data |-> [p \in Cells(tile.h, tile.w + 1) |-> 1]]

tiled_deconv_helper_raw(tile, roi) == [image_tile |-> tile, roi |-> roi]
tiled_deconv_helper(tile, roi) == [image_tile |-> color_deconvolution(tile), roi |-> roi]

NoValue == [image_tile |-> [h |-> 0, w |-> 0, data |-> <<>>], roi |-> <<0, 0, 0, 0>>]

\* The input arrays of the model: pixel levels 1..PixelLevels in a pattern per seed.
Images(h, w) ==
    {[p \in Cells(h, w) |-> 1 + ((p[1] * w + p[2] + s) % PixelLevels)] : s \in 0 .. MaxSeed}

\* region_to_process, built by the nested loops over range(0, n, tile_size).
RowRegions_Unclipped(rs, nr, nc, ts) ==
    LET cols == PyRange(0, nc, ts)
    IN  [k \in 1 .. Len(cols) |-> <<rs, rs + ts, cols[k], cols[k] + ts>>]
RowRegions(rs, nr, nc, ts) ==
    LET cols == PyRange(0, nc, ts)
    IN  [k \in 1 .. Len(cols) |-> <<rs, Min(rs + ts, nr), cols[k], Min(cols[k] + ts, nc)>>]

RECURSIVE RegionsFrom(_, _, _, _)
RegionsFrom(rs, nr, nc, ts) ==
    IF rs >= nr THEN <<>>
    ELSE RowRegions(rs, nr, nc, ts) \o RegionsFrom(rs + ts, nr, nc, ts)

BuildRegions(nr, nc, ts) == RegionsFrom(0, nr, nc, ts)

\* batch_count, from len(region_to_process) and batch_size.
BatchCount_Floor(len, bs) == len \div bs
BatchCount(len, bs) == IF len % bs = 0 THEN len \div bs ELSE len \div bs + 1

\* batch_size_ of super-batch bid.
BatchSizeOf_All(len, bs, bid) == len
BatchSizeOf(len, bs, bid) == IF len < bs * (bid + 1) THEN len % bs ELSE bs

\* total of the sequential progress bar.
SeqTotal(nr, nc, ts, bs) == ((nr + bs - 1) \div ts) * ((nc + bs - 1) \div ts)

EmptyPool == [taskq |-> <<>>, running |-> {}, outq |-> <<>>, cache |-> {}]
IdleHandler == [pc |-> "idle", res |-> [job |-> 0, success |-> TRUE, value |-> NoValue]]

\* ------------------------------------------------ the tile assemblers
\* A CZI mosaic is a list of tiles, tile M=m at bounding box [x, y, w, h].  The
\* model's mosaics are one strip of tiles: the tiles are one pixel high and share
\* their vertical offset (0 or 1); their horizontal offsets and widths vary
\* within the bounds, so tiles may overlap, leave gaps and differ in size.  A
\* 2-d array is [shape, data] with data indexed from <<0, 0>>; the channel axis
\* is taken whole and not modelled.
MaxTiles == 2
MaxCoord == 1
MaxSize == 2

BBoxes == [x : 0 .. MaxCoord, y : 0 .. 1, w : 1 .. MaxSize, h : {1}]
TileSets ==
    UNION {{f \in [0 .. n - 1 -> BBoxes] : \A k \in 0 .. n - 1 : f[k].y = f[0].y} :
           n \in 1 .. MaxTiles}

SetMin(S) == CHOOSE v \in S : \A u \in S : v <= u
SetMax(S) == CHOOSE v \in S : \A u \in S : v >= u

\* min / max over the tiles' bounding boxes
x_(bbs) == {bbs[k].x : k \in DOMAIN bbs}
y_(bbs) == {bbs[k].y : k \in DOMAIN bbs}
right_(bbs) == {bbs[k].x + bbs[k].w : k \in DOMAIN bbs}
bottom_(bbs) == {bbs[k].y + bbs[k].h : k \in DOMAIN bbs}

\* CziFile.get_mosaic_bounding_box(): the box around all the tiles.
get_mosaic_bounding_box(bbs) ==
    IF DOMAIN bbs = {} THEN [x |-> 0, y |-> 0, w |-> 0, h |-> 0]
    ELSE [x |-> SetMin(x_(bbs)), y |-> SetMin(y_(bbs)),
          w |-> SetMax(right_(bbs)) - SetMin(x_(bbs)),
          h |-> SetMax(bottom_(bbs)) - SetMin(y_(bbs))]

\* np.zeros(shape)
np_zeros(shape) == [shape |-> shape, data |-> [p \in Cells(shape[1], shape[2]) |-> 0]]
NoArray == [shape |-> <<0, 0>>, data |-> <<>>]
Scalar(v) == [shape |-> <<1, 1>>, data |-> [p \in Cells(1, 1) |-> v]]

\* Python's slice.indices(len) for step 1: negative bounds count from the end,
\* bounds beyond the axis are clipped.
SliceBound(v, len) ==
    IF v < 0 THEN (IF v + len < 0 THEN 0 ELSE v + len)
    ELSE IF v > len THEN len ELSE v
SliceLen(start, stop, len) ==
    IF SliceBound(stop, len) > SliceBound(start, len)
    THEN SliceBound(stop, len) - SliceBound(start, len) ELSE 0

\* arr[b1:b2, b3:b4, :] = val: the target is the clipped slice; numpy raises
\* ValueError unless val broadcasts to the target's shape.
TargetShape(arr, box) ==
    <<SliceLen(box[1], box[2], arr.shape[1]), SliceLen(box[3], box[4], arr.shape[2])>>
InTarget(arr, box, p) ==
    /\ SliceBound(box[1], arr.shape[1]) <= p[1]
    /\ p[1] < SliceBound(box[1], arr.shape[1]) + TargetShape(arr, box)[1]
    /\ SliceBound(box[3], arr.shape[2]) <= p[2]
    /\ p[2] < SliceBound(box[3], arr.shape[2]) + TargetShape(arr, box)[2]
np_setitem_ok(arr, box, val) ==
    \A k \in 1 .. 2 : val.shape[k] = TargetShape(arr, box)[k] \/ val.shape[k] = 1
np_setitem(arr, box, val) ==
    [arr EXCEPT !.data = [p \in DOMAIN arr.data |->
        IF InTarget(arr, box, p)
        THEN val.data[<<IF val.shape[1] = 1 THEN 0 ELSE p[1] - SliceBound(box[1], arr.shape[1]),
                        IF val.shape[2] = 1 THEN 0 ELSE p[2] - SliceBound(box[3], arr.shape[2])>>]
        ELSE arr.data[p]]]

\* np.transpose(tile[0, :, :, :], (1, 0, 2))
np_transpose(a) ==
    [shape |-> <<a.shape[2], a.shape[1]>>,
     data |-> [p \in Cells(a.shape[2], a.shape[1]) |-> a.data[<<p[2], p[1]>>]]]

\* The pixel block read_mosaic returns for tile mm: h rows by w columns of the
\* tile's pixels; a block that does not match its bounding box has one column more.
TilePixel(mm, row, col) == 1 + ((mm + row + col) % PixelLevels)
read_mosaic(mm, bbox, o) ==
    LET w == IF o = "misfit" THEN bbox.w + 1 ELSE bbox.w
    IN  [shape |-> <<bbox.h, w>>,
         data |-> [p \in Cells(bbox.h, w) |-> TilePixel(mm, p[1], p[2])]]

\* What reading one tile may do: return its block, raise, or return a block of
\* another shape than its bounding box.  At most MaxRaise reads go wrong in one
\* run of the model.
ReadOutcomes ==
    {"ok"} \cup (IF Cardinality(bad_reads) < MaxRaise THEN {"raise", "misfit"} ELSE {})

\* The destination of a tile: [x_start:x_end, y_start:y_end].
dest(bbox, off) ==
    <<bbox.x - off[1], bbox.x - off[1] + bbox.w, bbox.y - off[2], bbox.y - off[2] + bbox.h>>

NoRead(st) == [status |-> st, box |-> <<0, 0, 0, 0>>, image_tile |-> NoArray]

\* read_tile(args): the result dict of one tile, or the exception it raised.
read_tile(mm, bbox, off, o) ==
    IF o = "raise" THEN NoRead("raise")
    ELSE [status |-> "ok", box |-> dest(bbox, off),
          image_tile |-> np_transpose(read_mosaic(mm, bbox, o))]

\* The assemblers at rest, while stain_vector_separation_large runs.
AsmIdle ==
    /\ reader = "none" /\ n_workers = 1
    /\ tle_bboxes = <<>>
    /\ image_np = NoArray
    /\ origin = <<0, 0>>
    /\ rpc = "idle" /\ m = 0
    /\ reads = <<>> /\ results = <<>>
    /\ overtaken = FALSE /\ bad_reads = {} /\ dests = {}
    /\ written_tiles = {} /\ skipped_tiles = {}
    /\ canvas_out = <<>>
    /\ has_M = TRUE /\ queried = {} /\ tile_bboxes = <<>>

\* No call of iterate_over_regions.
Requests == {1, 2}
NoFrame == [pc |-> "none", y |-> 0, x |-> 0, exc |-> ""]
SegIdle ==
    /\ image_height = 1 /\ image_width = 1
    /\ seg_tile_size = 1 /\ overlap_size = 0
    /\ mask = "same_shape" /\ debug = TRUE
    /\ gen = [g \in Requests |-> NoFrame]
    /\ yielded = [g \in Requests |-> <<>>]

\* ------------------------------------------------------------------- Init
Init ==
    /\ n_rows \in 1 .. MaxRows
    /\ n_cols \in 1 .. MaxCols
    /\ tile_size \in 1 .. MaxTile
    /\ batch_size \in 1 .. MaxBatch
    /\ threads \in 0 .. MaxThreads
    /\ image \in Images(n_rows, n_cols)
    /\ imDeconvolved = zeros_like(image)
    /\ pc = "entry"
    /\ row_start = 0 /\ col_start = 0
    /\ region_to_process = <<>> /\ batch_count = 0
    /\ batch_id = 0 /\ batch_size_ = 0 /\ i = 0
    /\ region_to_process_chuck = <<>> /\ submit_k = 0
    /\ pbar = [n |-> 0, total |-> 0, batch |-> 0]
    /\ mutex = [id |-> 0, locked |-> FALSE, owner |-> 0]
    /\ pool = EmptyPool
    /\ cb = IdleHandler
    /\ printed = <<>>
    /\ returned = <<>>
    /\ failed = {} /\ misshapen = {}
    /\ materialized = {} /\ submitted = {} /\ completed = {}
    /\ AsmIdle
    /\ SegIdle

\* What one transform call may do: return the stains, raise, or return an array
\* of another shape.  At most MaxRaise calls raise in one run of the model.
TransformOutcomes == {"ok", "shape"} \cup (IF Cardinality(failed) < MaxRaise THEN {"raise"} ELSE {})

\* ------------------------------------------------- entry, lines 108-117
\* threads < 2: the progress bar of the sequential path; otherwise the region
\* list and batch_count of the pooled path.
Enter ==
    /\ pc = "entry"
    /\ IF threads < 2
       THEN /\ pbar' = [n |-> 0, total |-> SeqTotal(n_rows, n_cols, tile_size, batch_size),
                        batch |-> 0]
            /\ pc' = "seq"
            /\ UNCHANGED planVars
       ELSE /\ region_to_process' = BuildRegions(n_rows, n_cols, tile_size)
            /\ batch_count' = BatchCount(Len(region_to_process'), batch_size)
            /\ pc' = "batch"
            /\ UNCHANGED pbar
    /\ UNCHANGED <<segVars, asmVars, args, imDeconvolved, seqVars, loopVars, mutex, pool, cb, printed,
                   returned, histVars>>

\* ------------------------------------------ sequential path, lines 127-143
\* The loop variables after one more iteration of the nested range loops.
SeqAdvance(rs, cs) ==
    IF cs + tile_size < n_cols THEN <<rs, cs + tile_size>> ELSE <<rs + tile_size, 0>>

\* One iteration: slice, transform, write, pbar.update(1).  Nothing catches
\* an exception of the transform or of the assignment.
SeqIteration ==
    /\ pc = "seq"
    /\ row_start < n_rows
    /\ LET roi == <<row_start, Min(row_start + tile_size, n_rows),
                    col_start, Min(col_start + tile_size, n_cols)>>
           batch == Slice(image, roi)
       IN  \E o \in TransformOutcomes :
             \/ /\ o = "ok"
                /\ imDeconvolved' = SetRegion(imDeconvolved, roi, color_deconvolution(batch))
                /\ pbar' = [pbar EXCEPT !.n = @ + 1]
                /\ row_start' = SeqAdvance(row_start, col_start)[1]
                /\ col_start' = SeqAdvance(row_start, col_start)[2]
                /\ UNCHANGED <<pc, failed, misshapen>>
             \/ /\ o = "raise"
                /\ failed' = failed \cup {roi}
                /\ pc' = "raised"
                /\ UNCHANGED <<imDeconvolved, pbar, seqVars, misshapen>>
             \/ /\ o = "shape"
                /\ ~ShapeFits(roi, MisshapenStains(batch))
                /\ misshapen' = misshapen \cup {roi}
                /\ pc' = "raised"
                /\ UNCHANGED <<imDeconvolved, pbar, seqVars, failed>>
    /\ UNCHANGED <<segVars, asmVars, args, planVars, loopVars, mutex, pool, cb, printed, returned,
                   materialized, submitted, completed>>

\* pbar.close(); return imDeconvolved
SeqReturn ==
    /\ pc = "seq"
    /\ row_start >= n_rows
    /\ pc' = "done"
    /\ returned' = <<imDeconvolved>>
    /\ UNCHANGED <<segVars, asmVars, args, imDeconvolved, seqVars, planVars, loopVars, pbar, mutex, pool,
                   cb, printed, histVars>>

\* ---------------------------------------------- pooled path, lines 160-204
\* Top of "for batch_id in range(batch_count)": the chunk list is reset and
\* batch_size_ computed.
BatchBegin ==
    /\ pc = "batch"
    /\ batch_id < batch_count
    /\ region_to_process_chuck' = <<>>
    /\ batch_size_' = BatchSizeOf(Len(region_to_process), batch_size, batch_id)
    /\ i' = 0
    /\ pc' = "load"
    /\ UNCHANGED <<segVars, asmVars, args, imDeconvolved, seqVars, planVars, batch_id, submit_k, pbar,
                   mutex, pool, cb, printed, returned, histVars>>

\* One iteration of "for i in range(batch_size_)": materialize one sub-array.
LoadTile ==
    /\ pc = "load"
    /\ i < batch_size_
    /\ LET tile_idx == batch_id * batch_size + i
       IN  IF tile_idx < Len(region_to_process)
           THEN LET roi == region_to_process[tile_idx + 1]
                IN  /\ region_to_process_chuck' =
                          Append(region_to_process_chuck,
                                 [tile |-> Slice(image, roi), roi |-> roi, idx |-> tile_idx])
                    /\ materialized' = materialized \cup {tile_idx}
                    /\ i' = i + 1
           ELSE \* break
                /\ i' = batch_size_
                /\ UNCHANGED <<region_to_process_chuck, materialized>>
    /\ UNCHANGED <<segVars, asmVars, args, imDeconvolved, pc, seqVars, planVars, batch_id, batch_size_,
                   submit_k, pbar, mutex, pool, cb, printed, returned, failed, misshapen,
                   submitted, completed>>

\* pbar = tqdm(total=batch_size_); mutex = Lock(); pool = Pool(threads)
OpenPool ==
    /\ pc = "load"
    /\ i >= batch_size_
    /\ pbar' = [n |-> 0, total |-> batch_size_, batch |-> batch_id]
    /\ mutex' = [id |-> batch_id, locked |-> FALSE, owner |-> 0]
    /\ pool' = EmptyPool
    /\ cb' = IdleHandler
    /\ submit_k' = 0
    /\ pc' = "submit"
    /\ UNCHANGED <<segVars, asmVars, args, imDeconvolved, seqVars, planVars, batch_id, batch_size_, i,
                   region_to_process_chuck, printed, returned, histVars>>

\* pool.apply_async(tiled_deconv_helper, (tile, roi, W), callback, error_callback)
Submit ==
    /\ pc = "submit"
    /\ submit_k < Len(region_to_process_chuck)
    /\ LET region == region_to_process_chuck[submit_k + 1]
       IN  /\ pool' = [pool EXCEPT !.taskq = Append(@, region),
                                   !.cache = @ \cup {region.idx}]
           /\ submitted' = submitted \cup {region.idx}
    /\ submit_k' = submit_k + 1
    /\ UNCHANGED <<segVars, asmVars, args, imDeconvolved, pc, seqVars, planVars, batch_id, batch_size_, i,
                   region_to_process_chuck, pbar, mutex, cb, printed, returned, failed,
                   misshapen, materialized, completed>>

\* pool.close(), then the caller blocks in pool.join()
ClosePool ==
    /\ pc = "submit"
    /\ submit_k >= Len(region_to_process_chuck)
    /\ pc' = "join"
    /\ UNCHANGED <<segVars, asmVars, args, imDeconvolved, seqVars, planVars, loopVars, pbar, mutex, pool,
                   cb, printed, returned, histVars>>

\* pool.join() returns once every job has left the pool's cache; pbar.close()
\* and the next batch_id follow.
JoinReady_NoWait == TRUE
JoinReady == pool.cache = {}

Join ==
    /\ pc = "join"
    /\ JoinReady
    /\ batch_id' = batch_id + 1
    /\ pc' = "batch"
    /\ UNCHANGED <<segVars, asmVars, args, imDeconvolved, seqVars, planVars, batch_size_, i,
                   region_to_process_chuck, submit_k, pbar, mutex, pool, cb, printed,
                   returned, histVars>>

\* return imDeconvolved
Return ==
    /\ pc = "batch"
    /\ batch_id >= batch_count
    /\ pc' = "done"
    /\ returned' = <<imDeconvolved>>
    /\ UNCHANGED <<segVars, asmVars, args, imDeconvolved, seqVars, planVars, loopVars, pbar, mutex, pool,
                   cb, printed, histVars>>

\* ------------------------------------------- the pool's worker processes
\* A free worker (there are `threads` of them) takes the oldest queued task.
WorkerTake ==
    /\ pool.taskq # <<>>
    /\ Cardinality(pool.running) < threads
    /\ pool' = [pool EXCEPT !.taskq = Tail(@), !.running = @ \cup {Head(pool.taskq)}]
    /\ UNCHANGED <<segVars, asmVars, args, imDeconvolved, pc, seqVars, planVars, loopVars, pbar, mutex, cb,
                   printed, returned, histVars>>

\* The worker ran tiled_deconv_helper(tile, roi, W) and queues (success, value).
WorkerResult(task, o) ==
    IF o = "ok" THEN [job |-> task.idx, success |-> TRUE,
                      value |-> tiled_deconv_helper(task.tile, task.roi)]
    ELSE IF o = "shape" THEN [job |-> task.idx, success |-> TRUE,
                              value |-> [image_tile |-> MisshapenStains(task.tile),
                                         roi |-> task.roi]]
    ELSE [job |-> task.idx, success |-> FALSE, value |-> NoValue]

WorkerFinish ==
    \E task \in pool.running : \E o \in TransformOutcomes :
        /\ pool' = [pool EXCEPT !.running = @ \ {task},
                                !.outq = Append(@, WorkerResult(task, o))]
        /\ failed' = IF o = "raise" THEN failed \cup {task.roi} ELSE failed
        /\ misshapen' = IF o = "shape" THEN misshapen \cup {task.roi} ELSE misshapen
        /\ UNCHANGED <<segVars, asmVars, args, imDeconvolved, pc, seqVars, planVars, loopVars, pbar, mutex,
                       cb, printed, returned, materialized, submitted, completed>>

\* ------------------------------- the pool's result handler (one thread)
\* callback_fn, first statement: pbar.update(1)
CallbackUpdate ==
    /\ cb.pc = "idle"
    /\ pool.outq # <<>>
    /\ Head(pool.outq).success
    /\ pbar' = [pbar EXCEPT !.n = @ + 1]
    /\ cb' = [pc |-> "acquire", res |-> Head(pool.outq)]
    /\ pool' = [pool EXCEPT !.outq = Tail(@)]
    /\ UNCHANGED <<segVars, asmVars, args, imDeconvolved, pc, seqVars, planVars, loopVars, mutex, printed,
                   returned, histVars>>

\* callback_fn: "with mutex:" entered
CallbackAcquire_NoLock ==
    /\ cb.pc = "acquire"
    /\ cb' = [cb EXCEPT !.pc = "write"]
    /\ UNCHANGED <<segVars, asmVars, args, imDeconvolved, pc, seqVars, planVars, loopVars, pbar, mutex, pool,
                   printed, returned, histVars>>

CallbackAcquire ==
    /\ cb.pc = "acquire"
    /\ ~mutex.locked
    /\ mutex' = [mutex EXCEPT !.locked = TRUE, !.owner = cb.res.job]
    /\ cb' = [cb EXCEPT !.pc = "write"]
    /\ UNCHANGED <<segVars, asmVars, args, imDeconvolved, pc, seqVars, planVars, loopVars, pbar, pool,
                   printed, returned, histVars>>

\* callback_fn: imDeconvolved[roi] = np.copy(img_tile).  A shape mismatch raises:
\* the with-statement releases the mutex and the exception ends the thread.
CallbackWriteTo(roi) ==
    /\ cb.pc = "write"
    /\ LET img_tile == cb.res.value.image_tile
       IN  IF ShapeFits(roi, img_tile)
           THEN /\ imDeconvolved' = SetRegion(imDeconvolved, roi, img_tile)
                /\ cb' = [cb EXCEPT !.pc = "release"]
                /\ UNCHANGED mutex
           ELSE /\ cb' = [cb EXCEPT !.pc = "dead"]
                /\ mutex' = [mutex EXCEPT !.locked = FALSE]
                /\ UNCHANGED imDeconvolved
    /\ UNCHANGED <<segVars, asmVars, args, pc, seqVars, planVars, loopVars, pbar, pool, printed, returned,
                   histVars>>

\* row_start, row_end, col_start, col_end = res["roi"]
CallbackWrite_LateBound ==
    CallbackWriteTo(region_to_process_chuck[Len(region_to_process_chuck)].roi)

CallbackWrite == CallbackWriteTo(cb.res.value.roi)

\* callback_fn: the with-statement left; the job leaves the cache.
CallbackRelease ==
    /\ cb.pc = "release"
    /\ mutex' = [mutex EXCEPT !.locked = FALSE]
    /\ pool' = [pool EXCEPT !.cache = @ \ {cb.res.job}]
    /\ completed' = completed \cup {cb.res.job}
    /\ cb' = [cb EXCEPT !.pc = "idle"]
    /\ UNCHANGED <<segVars, asmVars, args, imDeconvolved, pc, seqVars, planVars, loopVars, pbar, printed,
                   returned, failed, misshapen, materialized, submitted>>

\* callback_err: print(err); the job leaves the cache.
CallbackErr_Update ==
    /\ cb.pc = "idle"
    /\ pool.outq # <<>>
    /\ ~Head(pool.outq).success
    /\ printed' = Append(printed, "err")
    /\ pbar' = [pbar EXCEPT !.n = @ + 1]
    /\ pool' = [pool EXCEPT !.outq = Tail(@), !.cache = @ \ {Head(pool.outq).job}]
    /\ completed' = completed \cup {Head(pool.outq).job}
    /\ UNCHANGED <<segVars, asmVars, args, imDeconvolved, pc, seqVars, planVars, loopVars, mutex, cb,
                   returned, failed, misshapen, materialized, submitted>>

CallbackErr_Terminate ==
    /\ cb.pc = "idle"
    /\ pool.outq # <<>>
    /\ ~Head(pool.outq).success
    /\ printed' = Append(printed, "err")
    /\ pool' = EmptyPool
    /\ completed' = completed \cup {Head(pool.outq).job}
    /\ UNCHANGED <<segVars, asmVars, args, imDeconvolved, pc, seqVars, planVars, loopVars, pbar, mutex, cb,
                   returned, failed, misshapen, materialized, submitted>>

CallbackErr ==
    /\ cb.pc = "idle"
    /\ pool.outq # <<>>
    /\ ~Head(pool.outq).success
    /\ printed' = Append(printed, "err")
    /\ pool' = [pool EXCEPT !.outq = Tail(@), !.cache = @ \ {Head(pool.outq).job}]
    /\ completed' = completed \cup {Head(pool.outq).job}
    /\ UNCHANGED <<segVars, asmVars, args, imDeconvolved, pc, seqVars, planVars, loopVars, pbar, mutex, cb,
                   returned, failed, misshapen, materialized, submitted>>

Next ==
    \/ Enter
    \/ SeqIteration
    \/ SeqReturn
    \/ BatchBegin
    \/ LoadTile
    \/ OpenPool
    \/ Submit
    \/ ClosePool
    \/ Join
    \/ Return
    \/ WorkerTake
    \/ WorkerFinish
    \/ CallbackUpdate
    \/ CallbackAcquire
    \/ CallbackWrite
    \/ CallbackRelease
    \/ CallbackErr

Spec == Init /\ [][Next]_vars

\* Every thread and every worker process that can take a step eventually takes
\* one: a submitted task ends, a queued result is handled, the caller goes on.
FairSpec == Spec /\ WF_vars(Next)

\* ------------------------------------------- the tile assemblers' actions
\* stain_vector_separation_large at rest, while an assembler runs.
SvsIdle ==
    /\ n_rows = 1 /\ n_cols = 1 /\ tile_size = 1 /\ batch_size = 1 /\ threads = 0
    /\ image = [p \in Cells(1, 1) |-> 1]
    /\ imDeconvolved = zeros_like(image)
    /\ pc = "idle"
    /\ row_start = 0 /\ col_start = 0
    /\ region_to_process = <<>> /\ batch_count = 0
    /\ batch_id = 0 /\ batch_size_ = 0 /\ i = 0
    /\ region_to_process_chuck = <<>> /\ submit_k = 0
    /\ pbar = [n |-> 0, total |-> 0, batch |-> 0]
    /\ mutex = [id |-> 0, locked |-> FALSE, owner |-> 0]
    /\ pool = EmptyPool
    /\ cb = IdleHandler
    /\ printed = <<>>
    /\ returned = <<>>
    /\ failed = {} /\ misshapen = {}
    /\ materialized = {} /\ submitted = {} /\ completed = {}

\* The container: its tiles, and whether its dimensions hold 'M'.  The readers
\* that look at the dimensions are given containers with and without 'M'; the
\* container without tiles is given to every reader but the manual loop.
Discoverers == {"profile_sequential_loading", "visualize_tile_pattern"}
InitAsm ==
    /\ SvsIdle
    /\ SegIdle
    /\ reader \in {"image_read", "collagen_quant", "profile_sequential_loading",
                   "visualize_tile_pattern"}
    /\ n_workers \in (IF reader = "image_read" THEN {1, MaxThreads} ELSE {1})
    /\ tle_bboxes \in (IF reader = "collagen_quant" THEN TileSets ELSE TileSets \cup {<<>>})
    /\ has_M \in (IF reader \in Discoverers THEN BOOLEAN ELSE {TRUE})
    /\ queried = {} /\ tile_bboxes = <<>>
    /\ image_np = NoArray
    /\ origin = <<0, 0>>
    /\ rpc = "start" /\ m = 0
    /\ reads = <<>> /\ results = <<>>
    /\ overtaken = FALSE /\ bad_reads = {} /\ dests = {}
    /\ written_tiles = {} /\ skipped_tiles = {}
    /\ canvas_out = <<>>

TileIdx == DOMAIN tle_bboxes
NTiles == Cardinality(TileIdx)

\* --- image_read (python/decon.py)
\* The zero canvas of the mosaic's size, the offsets np.min(x_), np.min(y_), and
\* the pool with one read_tile task per tile.
\* image_read has no check of its own for a container without tiles: what the
\* library's get_mosaic_bounding_box() and get_all_mosaic_tile_bounding_boxes()
\* do then decides, an exception or an empty box and an empty dict (o).  With
\* no tile the loop that would evaluate np.min(x_) has no iteration, imap has
\* nothing to hand out and the merge loop follows at once.
LibraryOutcomes == {"ok", "raise"}
ReadAllocate(o) ==
    /\ reader = "image_read" /\ rpc = "start"
    /\ IF NTiles = 0 /\ o = "raise"
       THEN /\ rpc' = "raised"
            /\ UNCHANGED <<image_np, origin, reads>>
       ELSE /\ image_np' = np_zeros(<<get_mosaic_bounding_box(tle_bboxes).w,
                                      get_mosaic_bounding_box(tle_bboxes).h>>)
            /\ origin' = (IF NTiles = 0 THEN origin
                          ELSE <<SetMin(x_(tle_bboxes)), SetMin(y_(tle_bboxes))>>)
            /\ reads' = [k \in TileIdx |-> NoRead("queued")]
            /\ rpc' = (IF NTiles = 0 THEN "merge" ELSE "imap")
    /\ UNCHANGED <<segVars, discVars, svsVars, reader, n_workers, tle_bboxes, m, results, overtaken, bad_reads, dests,
                   written_tiles, skipped_tiles, canvas_out>>

\* A free worker takes the next task of the queue.
ReadTake ==
    /\ rpc = "imap"
    /\ Cardinality({k \in TileIdx : reads[k].status = "running"}) < n_workers
    /\ \E k \in TileIdx :
        /\ reads[k].status = "queued"
        /\ \A j \in TileIdx : j < k => reads[j].status # "queued"
        /\ reads' = [reads EXCEPT ![k] = NoRead("running")]
    /\ UNCHANGED <<segVars, discVars, svsVars, reader, n_workers, tle_bboxes, image_np, origin, rpc, m,
                   results, overtaken, bad_reads, dests, written_tiles, skipped_tiles, canvas_out>>

\* A worker ends read_tile for tile k: the result dict, or the exception.
ReadFinish(k, o) ==
    /\ rpc = "imap"
    /\ reads[k].status = "running"
    /\ reads' = [reads EXCEPT ![k] = read_tile(k, tle_bboxes[k], origin, o)]
    /\ overtaken' = (overtaken \/ \E j \in TileIdx : j < k /\ reads[j].status \in {"queued", "running"})
    /\ bad_reads' = (IF o = "ok" THEN bad_reads ELSE bad_reads \cup {k})
    /\ dests' = (IF o = "raise" THEN dests ELSE dests \cup {<<k, dest(tle_bboxes[k], origin)>>})
    /\ UNCHANGED <<segVars, discVars, svsVars, reader, n_workers, tle_bboxes, image_np, origin, rpc, m,
                   results, written_tiles, skipped_tiles, canvas_out>>

\* The tiles whose result pool.imap can hand to the caller next: imap yields the
\* results in the order of its input.
Collectable_Unordered ==
    {k \in TileIdx : reads[k].status \in {"ok", "raise"}}
Collectable ==
    {k \in TileIdx : k = Len(results) /\ reads[k].status \in {"ok", "raise"}}

\* list(tqdm(pool.imap(...))) takes one more result; a read that raised
\* re-raises in the caller, which leaves image_read.
ImapNext ==
    /\ rpc = "imap"
    /\ \E k \in Collectable :
        IF reads[k].status = "ok"
        THEN /\ results' = Append(results, reads[k])
             /\ reads' = [reads EXCEPT ![k] = NoRead("taken")]
             /\ rpc' = IF Len(results) + 1 = NTiles THEN "merge" ELSE "imap"
        ELSE /\ rpc' = "raised"
             /\ UNCHANGED <<results, reads>>
    /\ UNCHANGED <<segVars, discVars, svsVars, reader, n_workers, tle_bboxes, image_np, origin, m,
                   overtaken, bad_reads, dests, written_tiles, skipped_tiles, canvas_out>>

\* for res in results: image_np[x_start:x_end, y_start:y_end, :] = image_tile
MergeTile_Reversed ==
    /\ reader = "image_read" /\ rpc = "merge"
    /\ m < Len(results)
    /\ IF np_setitem_ok(image_np, results[Len(results) - m].box, results[Len(results) - m].image_tile)
       THEN /\ image_np' = np_setitem(image_np, results[Len(results) - m].box,
                                      results[Len(results) - m].image_tile)
            /\ written_tiles' = written_tiles \cup {m}
            /\ m' = m + 1
            /\ UNCHANGED rpc
       ELSE /\ rpc' = "raised"
            /\ UNCHANGED <<image_np, written_tiles, m>>
    /\ UNCHANGED <<segVars, discVars, svsVars, reader, n_workers, tle_bboxes, origin, reads, results,
                   overtaken, bad_reads, dests, skipped_tiles, canvas_out>>

MergeTile ==
    /\ reader = "image_read" /\ rpc = "merge"
    /\ m < Len(results)
    /\ IF np_setitem_ok(image_np, results[m + 1].box, results[m + 1].image_tile)
       THEN /\ image_np' = np_setitem(image_np, results[m + 1].box, results[m + 1].image_tile)
            /\ written_tiles' = written_tiles \cup {m}
            /\ m' = m + 1
            /\ UNCHANGED rpc
       ELSE /\ rpc' = "raised"
            /\ UNCHANGED <<image_np, written_tiles, m>>
    /\ UNCHANGED <<segVars, discVars, svsVars, reader, n_workers, tle_bboxes, origin, reads, results,
                   overtaken, bad_reads, dests, skipped_tiles, canvas_out>>

\* return image_np
ReadReturn ==
    /\ reader = "image_read" /\ rpc = "merge"
    /\ m = Len(results)
    /\ canvas_out' = <<image_np>>
    /\ rpc' = "done"
    /\ UNCHANGED <<segVars, discVars, svsVars, reader, n_workers, tle_bboxes, image_np, origin, m, reads,
                   results, overtaken, bad_reads, dests, written_tiles, skipped_tiles>>

\* --- the manual tile loop of collagen_quant (reader aicspylibczi)
PatchEnd0 == 10
PatchEnd1 == 5

\* image_np = np.zeros((w, h, 3)); image_np[0:10, 0:5, :] = 1
ManualAllocate ==
    /\ reader = "collagen_quant" /\ rpc = "start"
    /\ image_np' = np_setitem(np_zeros(<<get_mosaic_bounding_box(tle_bboxes).w,
                                         get_mosaic_bounding_box(tle_bboxes).h>>),
                              <<0, PatchEnd0, 0, PatchEnd1>>, Scalar(1))
    /\ rpc' = "loop"
    /\ UNCHANGED <<segVars, discVars, svsVars, reader, n_workers, tle_bboxes, origin, m, reads, results,
                   overtaken, bad_reads, dests, written_tiles, skipped_tiles, canvas_out>>

\* x_start = bbox.x, x_end = bbox.x + bbox.w, y_start = bbox.y, y_end = bbox.y + bbox.h
dest_raw(bbox) == <<bbox.x, bbox.x + bbox.w, bbox.y, bbox.y + bbox.h>>

\* One iteration: read_mosaic in try/except-continue, then the assignment in
\* try/except-continue.
ManualTile_Abort(o) ==
    /\ reader = "collagen_quant" /\ rpc = "loop"
    /\ m < NTiles
    /\ IF /\ o # "raise"
          /\ np_setitem_ok(image_np, dest_raw(tle_bboxes[m]),
                           np_transpose(read_mosaic(m, tle_bboxes[m], o)))
       THEN /\ image_np' = np_setitem(image_np, dest_raw(tle_bboxes[m]),
                                      np_transpose(read_mosaic(m, tle_bboxes[m], o)))
            /\ written_tiles' = written_tiles \cup {m}
            /\ m' = m + 1
            /\ UNCHANGED <<skipped_tiles, rpc>>
       ELSE /\ rpc' = "raised"
            /\ UNCHANGED <<image_np, written_tiles, skipped_tiles, m>>
    /\ bad_reads' = (IF o = "ok" THEN bad_reads ELSE bad_reads \cup {m})
    /\ dests' = (IF o = "raise" THEN dests ELSE dests \cup {<<m, dest_raw(tle_bboxes[m])>>})
    /\ UNCHANGED <<segVars, discVars, svsVars, reader, n_workers, tle_bboxes, origin, reads, results,
                   overtaken, canvas_out>>
ManualTile(o) ==
    /\ reader = "collagen_quant" /\ rpc = "loop"
    /\ m < NTiles
    /\ IF /\ o # "raise"
          /\ np_setitem_ok(image_np, dest_raw(tle_bboxes[m]),
                           np_transpose(read_mosaic(m, tle_bboxes[m], o)))
       THEN /\ image_np' = np_setitem(image_np, dest_raw(tle_bboxes[m]),
                                      np_transpose(read_mosaic(m, tle_bboxes[m], o)))
            /\ written_tiles' = written_tiles \cup {m}
            /\ UNCHANGED skipped_tiles
       ELSE /\ skipped_tiles' = skipped_tiles \cup {m}
            /\ UNCHANGED <<image_np, written_tiles>>
    /\ bad_reads' = (IF o = "ok" THEN bad_reads ELSE bad_reads \cup {m})
    /\ dests' = (IF o = "raise" THEN dests ELSE dests \cup {<<m, dest_raw(tle_bboxes[m])>>})
    /\ m' = m + 1
    /\ UNCHANGED <<segVars, discVars, svsVars, reader, n_workers, tle_bboxes, origin, rpc, reads, results,
                   overtaken, canvas_out>>

\* The loop is over; image_np goes on to stain_vector_separation_large.
ManualDone ==
    /\ reader = "collagen_quant" /\ rpc = "loop"
    /\ m = NTiles
    /\ canvas_out' = <<image_np>>
    /\ rpc' = "done"
    /\ UNCHANGED <<segVars, discVars, svsVars, reader, n_workers, tle_bboxes, image_np, origin, m, reads,
                   results, overtaken, bad_reads, dests, written_tiles, skipped_tiles>>

\* --- profile_sequential_loading (benchmark/profile_czi_loading.py)
\* (output_height, output_width), from the extreme x and y and the first tile's size.
output_shape(bbs) ==
    <<SetMax(y_(bbs)) - SetMin(y_(bbs)) + bbs[0].h,
      SetMax(x_(bbs)) - SetMin(x_(bbs)) + bbs[0].w>>

\* min_x, min_y and output = np.zeros((output_height, output_width, n_channels))
\* Before them: ValueError when dims_shape has no 'M'; then one bounding-box
\* query per tile; min() of no box raises ValueError.
ProfileAllocate_LateCheck ==
    /\ reader = "profile_sequential_loading" /\ rpc = "start"
    /\ queried' = TileIdx
    /\ IF NTiles = 0
       THEN /\ rpc' = "raised"
            /\ UNCHANGED <<origin, image_np>>
       ELSE /\ origin' = <<SetMin(x_(tle_bboxes)), SetMin(y_(tle_bboxes))>>
            /\ image_np' = np_zeros(output_shape(tle_bboxes))
            /\ rpc' = (IF has_M THEN "loop" ELSE "raised")
    /\ UNCHANGED <<segVars, has_M, tile_bboxes, svsVars, reader, n_workers, tle_bboxes, m,
                   reads, results, overtaken, bad_reads, dests, written_tiles,
                   skipped_tiles, canvas_out>>

ProfileAllocate ==
    /\ reader = "profile_sequential_loading" /\ rpc = "start"
    /\ IF ~has_M
       THEN /\ rpc' = "raised"
            /\ UNCHANGED <<origin, image_np, queried>>
       ELSE /\ queried' = TileIdx
            /\ IF NTiles = 0
               THEN /\ rpc' = "raised"
                    /\ UNCHANGED <<origin, image_np>>
               ELSE /\ origin' = <<SetMin(x_(tle_bboxes)), SetMin(y_(tle_bboxes))>>
                    /\ image_np' = np_zeros(output_shape(tle_bboxes))
                    /\ rpc' = "loop"
    /\ UNCHANGED <<segVars, has_M, tile_bboxes, svsVars, reader, n_workers, tle_bboxes, m, reads, results,
                   overtaken, bad_reads, dests, written_tiles, skipped_tiles, canvas_out>>

\* output[y_start:y_end, x_start:x_end], translated by (min_x, min_y)
dest_yx(bbox, off) ==
    <<bbox.y - off[2], bbox.y - off[2] + bbox.h, bbox.x - off[1], bbox.x - off[1] + bbox.w>>

\* One iteration: read and stitch inside one try/except.
ProfileTile(o) ==
    /\ reader = "profile_sequential_loading" /\ rpc = "loop"
    /\ m < NTiles
    /\ IF /\ o # "raise"
          /\ np_setitem_ok(image_np, dest_yx(tle_bboxes[m], origin),
                           read_mosaic(m, tle_bboxes[m], o))
       THEN /\ image_np' = np_setitem(image_np, dest_yx(tle_bboxes[m], origin),
                                      read_mosaic(m, tle_bboxes[m], o))
            /\ written_tiles' = written_tiles \cup {m}
            /\ UNCHANGED skipped_tiles
       ELSE /\ skipped_tiles' = skipped_tiles \cup {m}
            /\ UNCHANGED <<image_np, written_tiles>>
    /\ bad_reads' = (IF o = "ok" THEN bad_reads ELSE bad_reads \cup {m})
    /\ dests' = (IF o = "raise" THEN dests
                 ELSE dests \cup {<<m, dest_yx(tle_bboxes[m], origin)>>})
    /\ m' = m + 1
    /\ UNCHANGED <<segVars, discVars, svsVars, reader, n_workers, tle_bboxes, origin, rpc, reads, results,
                   overtaken, canvas_out>>

\* return output, timings, detailed_samples
ProfileReturn ==
    /\ reader = "profile_sequential_loading" /\ rpc = "loop"
    /\ m = NTiles
    /\ canvas_out' = <<image_np>>
    /\ rpc' = "done"
    /\ UNCHANGED <<segVars, discVars, svsVars, reader, n_workers, tle_bboxes, image_np, origin, m, reads,
                   results, overtaken, bad_reads, dests, written_tiles, skipped_tiles>>

\* --- load_tile_bboxes and main (benchmark/visualize_tile_pattern.py)
\* The dicts of the tiles of S with index k or more, in index order.
RECURSIVE BoxList(_, _)
BoxList(S, k) ==
    IF k >= NTiles THEN <<>>
    ELSE (IF k \in S
          THEN <<[idx |-> k, x |-> tle_bboxes[k].x, y |-> tle_bboxes[k].y,
                  w |-> tle_bboxes[k].w, h |-> tle_bboxes[k].h]>>
          ELSE <<>>) \o BoxList(S, k + 1)

\* load_tile_bboxes: ValueError when dims_shape has no 'M'; else one
\* bounding-box query per tile, a tile whose query raises (bad) is left out.
load_tile_bboxes(bad) ==
    /\ reader = "visualize_tile_pattern" /\ rpc = "start"
    /\ IF ~has_M
       THEN /\ rpc' = "raised"
            /\ UNCHANGED <<queried, tile_bboxes>>
       ELSE /\ queried' = TileIdx
            /\ tile_bboxes' = BoxList(TileIdx \ bad, 0)
            /\ rpc' = "listed"
    /\ UNCHANGED <<segVars, has_M, svsVars, reader, n_workers, tle_bboxes, image_np, origin,
                   m, reads, results, overtaken, bad_reads, dests, written_tiles,
                   skipped_tiles, canvas_out>>

\* main: sys.exit(1) when the list is empty, else visualize_tile_patterns.
main ==
    /\ reader = "visualize_tile_pattern" /\ rpc = "listed"
    /\ rpc' = (IF Len(tile_bboxes) = 0 THEN "exit" ELSE "done")
    /\ UNCHANGED <<segVars, discVars, svsVars, reader, n_workers, tle_bboxes, image_np, origin,
                   m, reads, results, overtaken, bad_reads, dests, written_tiles,
                   skipped_tiles, canvas_out>>

NextAsm ==
    \/ \E o \in LibraryOutcomes : ReadAllocate(o)
    \/ \E bad \in SUBSET TileIdx : load_tile_bboxes(bad)
    \/ main
    \/ ReadTake
    \/ \E k \in TileIdx, o \in ReadOutcomes : ReadFinish(k, o)
    \/ ImapNext
    \/ MergeTile
    \/ ReadReturn
    \/ ManualAllocate
    \/ \E o \in ReadOutcomes : ManualTile(o)
    \/ ManualDone
    \/ ProfileAllocate
    \/ \E o \in ReadOutcomes : ProfileTile(o)
    \/ ProfileReturn

SpecAsm == InitAsm /\ [][NextAsm]_vars

\* ===================================================================
\* iterate_over_regions (python/seg.py)
\* ===================================================================
MaxDim == 3
MaxWindow == 3
MaxOverlap == 4

InitSeg ==
    /\ SvsIdle
    /\ AsmIdle
    /\ image_height \in 1 .. MaxDim
    /\ image_width \in 1 .. MaxDim
    /\ seg_tile_size \in 1 .. MaxWindow
    /\ overlap_size \in 0 .. MaxOverlap
    /\ mask \in {"None", "same_shape"}
    /\ debug \in BOOLEAN
    /\ gen = [g \in Requests |-> NoFrame]
    /\ yielded = [g \in Requests |-> <<>>]

\* range(0, n - tile_size + 1, tile_size - overlap_size): its stop, its step,
\* and whether it produces v, for v = 0 + k * step and step # 0.
range_stop_Whole(n) == n
range_stop(n) == n - seg_tile_size + 1
range_step == seg_tile_size - overlap_size
InRange(v, stop) == IF range_step > 0 THEN v < stop ELSE v > stop

\* x_max = min(x + tile_size, image_width), y_max = min(y + tile_size, image_height)
x_max(x) == Min(x + seg_tile_size, image_width)
y_max(y) == Min(y + seg_tile_size, image_height)

\* arr[y:y_max, x:x_max] of an array of the image's shape: the rows and the
\* columns the slice holds, after numpy's treatment of the bounds.
np_getitem(y, x) ==
    [rows |-> <<SliceBound(y, image_height),
                SliceBound(y, image_height) + SliceLen(y, y_max(y), image_height)>>,
     cols |-> <<SliceBound(x, image_width),
                SliceBound(x, image_width) + SliceLen(x, x_max(x), image_width)>>]

\* The tuple yielded at (y, x): with the mask tile, or without it.
Window(y, x) ==
    IF mask # "None"
    THEN <<x, y, x_max(x), y_max(y), np_getitem(y, x), np_getitem(y, x)>>
    ELSE <<x, y, x_max(x), y_max(y), np_getitem(y, x)>>

\* The frame of the generator of request g: each call of the function has its own.
Frame_Shared(g) == gen[1]
Frame(g) == gen[g]

\* The first next(): the assert of line 24 reads mask.shape (unless python runs
\* with -O, which drops assert statements), then the two range() calls; it
\* stops at the first yield, or ends.
Start ==
    IF debug /\ mask = "None" THEN [NoFrame EXCEPT !.pc = "raised", !.exc = "AttributeError"]
    ELSE IF range_step = 0 THEN [NoFrame EXCEPT !.pc = "raised", !.exc = "ValueError"]
    ELSE IF /\ InRange(0, range_stop(image_height))
            /\ InRange(0, range_stop(image_width))
         THEN [NoFrame EXCEPT !.pc = "suspended"]
         ELSE [NoFrame EXCEPT !.pc = "done"]

\* A later next(), resumed after the yield at (y, x): the next x of the inner
\* loop, else the next y of the outer loop with x = 0, else the end.
Advance_ColumnMajor(y, x) ==
    IF InRange(y + range_step, range_stop(image_height))
    THEN [pc |-> "suspended", y |-> y + range_step, x |-> x, exc |-> ""]
    ELSE IF InRange(x + range_step, range_stop(image_width))
         THEN [pc |-> "suspended", y |-> 0, x |-> x + range_step, exc |-> ""]
         ELSE [pc |-> "done", y |-> y, x |-> x, exc |-> ""]
Advance(y, x) ==
    IF InRange(x + range_step, range_stop(image_width))
    THEN [pc |-> "suspended", y |-> y, x |-> x + range_step, exc |-> ""]
    ELSE IF InRange(y + range_step, range_stop(image_height))
         THEN [pc |-> "suspended", y |-> y + range_step, x |-> 0, exc |-> ""]
         ELSE [pc |-> "done", y |-> y, x |-> x, exc |-> ""]

\* iterate_over_regions(image, mask, tile_size, overlap_size): the call makes
\* a generator; no line of the body has run yet.
iterate_over_regions(g) ==
    /\ gen[g].pc = "none"
    /\ gen' = [gen EXCEPT ![g] = [NoFrame EXCEPT !.pc = "created"]]
    /\ UNCHANGED <<svsVars, asmVars, image_height, image_width, seg_tile_size,
                   overlap_size, mask, debug, yielded>>

\* next() on the generator of request g.
GenNext(g) ==
    /\ Frame(g).pc \in {"created", "suspended"}
    /\ LET f == IF Frame(g).pc = "created" THEN Start
                ELSE Advance(Frame(g).y, Frame(g).x)
       IN  /\ gen' = [gen EXCEPT ![g] = f]
           /\ yielded' = (IF f.pc = "suspended"
                          THEN [yielded EXCEPT ![g] = Append(@, Window(f.y, f.x))]
                          ELSE yielded)
    /\ UNCHANGED <<svsVars, asmVars, image_height, image_width, seg_tile_size,
                   overlap_size, mask, debug>>

NextSeg ==
    \/ \E g \in Requests : iterate_over_regions(g)
    \/ \E g \in Requests : GenNext(g)

SpecSeg == InitSeg /\ [][NextSeg]_vars

\* ===================================================================
\* Properties
\* ===================================================================
Pooled == threads >= 2

AllIdx == 0 .. Len(region_to_process) - 1
RoiOfIdx(idx) == region_to_process[idx + 1]
RoiCells(roi) == {p \in DOMAIN image : InRoi(p, roi)}
SuperBatchOf(idx) == idx \div batch_size

\* A region holds its stains (every stain level is positive, the canvas starts at 0).
RegionWritten(roi) == \A p \in RoiCells(roi) : imDeconvolved[p] = StainOf(image[p])
RegionZero(roi) == \A p \in RoiCells(roi) : imDeconvolved[p] = 0

\* The output of the sequential path when no transform fails: the nested loops
\* of lines 127-139 run to their end.
RECURSIVE SequentialFrom(_, _, _)
SequentialFrom(out, rs, cs) ==
    IF rs >= n_rows THEN out
    ELSE LET roi == <<rs, Min(rs + tile_size, n_rows), cs, Min(cs + tile_size, n_cols)>>
         IN  SequentialFrom(SetRegion(out, roi, color_deconvolution(Slice(image, roi))),
                            SeqAdvance(rs, cs)[1], SeqAdvance(rs, cs)[2])

SequentialOutput == SequentialFrom(zeros_like(image), 0, 0)

\* C1: with no failed task the pooled path returns, element for element, the
\* array the sequential path returns for the same image and tile_size (and the
\* sequential path itself returns that array).
C1_PooledEqualsSequential ==
    (pc = "done" /\ failed = {}) => (returned = <<SequentialOutput>>)

C1_Witness ==
    /\ Pooled /\ pc = "done" /\ failed = {}
    /\ batch_count >= 2 /\ n_rows >= 2 /\ n_cols >= 2 /\ tile_size < n_cols

\* The canvas when the completed tasks' results are merged in list order.
RECURSIVE InListOrder(_, _)
InListOrder(out, k) ==
    IF k > Len(region_to_process) THEN out
    ELSE LET roi == region_to_process[k]
         IN  InListOrder(IF roi \in failed THEN out
                         ELSE SetRegion(out, roi, tiled_deconv_helper(Slice(image, roi), roi).image_tile),
                         k + 1)

\* C2: in the pooled path every change of the output array is made by the
\* callback of one task and touches only the roi of that task, and the returned
\* array is the one obtained by merging in list order, whatever the order of
\* completion was.
C2_OrderIndependent ==
    /\ [][(Pooled /\ imDeconvolved' # imDeconvolved) =>
            /\ cb.pc = "write"
            /\ cb.res.value.roi = RoiOfIdx(cb.res.job)
            /\ \A p \in DOMAIN image :
                 ~InRoi(p, cb.res.value.roi) => imDeconvolved'[p] = imDeconvolved[p]]_vars
    /\ [](Pooled /\ pc = "done" => imDeconvolved = InListOrder(zeros_like(image), 1))

\* The result of task 1 was merged before that of task 0, which is being written now.
C2_Witness ==
    /\ Pooled /\ cb.pc = "write" /\ cb.res.job = 0
    /\ Len(region_to_process) >= 2
    /\ ShapeFits(cb.res.value.roi, cb.res.value.image_tile)
    /\ RegionWritten(RoiOfIdx(1)) /\ RegionZero(RoiOfIdx(0))

\* C3: nothing of super-batch k+1 is materialized or submitted before every
\* task of the earlier super-batches has completed (with success or failure).
C3_BatchBarrier ==
    \A j \in materialized \cup submitted :
        \A e \in AllIdx : SuperBatchOf(e) < SuperBatchOf(j) => e \in completed

C3_Witness ==
    /\ \E j \in materialized : SuperBatchOf(j) >= 1 /\ j \notin submitted
    /\ failed # {}
    /\ batch_size >= 2

\* C4: at most batch_size materialized sub-arrays await the completion of their task.
C4_InFlightBounded == Cardinality(materialized \ completed) <= batch_size

C4_Witness ==
    /\ Cardinality(materialized \ completed) = batch_size
    /\ batch_size >= 2 /\ batch_id >= 1
    /\ pool.running # {}

\* C5: every write to the output array of the pooled path is made by a callback
\* that holds the mutex of the current super-batch; while a callback is in its
\* with-block the mutex is locked by it.
C5_WritesUnderMutex ==
    /\ [](cb.pc \in {"write", "release"} =>
            mutex.locked /\ mutex.owner = cb.res.job /\ mutex.id = batch_id)
    /\ [][(Pooled /\ imDeconvolved' # imDeconvolved) =>
            mutex.locked /\ mutex.owner = cb.res.job /\ mutex'.locked]_vars

C5_Witness ==
    /\ cb.pc = "release" /\ mutex.locked /\ mutex.id >= 1
    /\ RegionWritten(cb.res.value.roi)

\* Regions of the progress bar's super-batch that have been written.
WrittenInBatch ==
    {idx \in AllIdx : SuperBatchOf(idx) = pbar.batch /\ RegionWritten(RoiOfIdx(idx))}

C7_FailureDoesNotCancel ==
    /\ Pooled => pc # "raised"
    /\ (Pooled /\ pc # "done" /\ misshapen = {}) => ENABLED Next
    /\ (Pooled /\ pc = "done") =>
          /\ submitted = AllIdx /\ completed = AllIdx
          /\ \A idx \in AllIdx : RoiOfIdx(idx) \notin failed => RegionWritten(RoiOfIdx(idx))
          /\ returned = <<imDeconvolved>>

\* The first task failed; its sibling and a later super-batch were still written.
C7_Witness ==
    /\ Pooled /\ pc = "done" /\ batch_size >= 2 /\ batch_count >= 2
    /\ RoiOfIdx(0) \in failed
    /\ RegionWritten(RoiOfIdx(1))
    /\ RegionWritten(RoiOfIdx(Len(region_to_process) - 1))

\* C8 as stated: the returned value carries, beside the array, the list of the
\* failed units.
C8_FailureListReturned ==
    (pc = "done" /\ failed # {}) => (Len(returned) >= 2 /\ returned[2] = failed)

\* C9: in the array the pooled path returns, the region of a failed batch is
\* zero and every other element holds the stain of its input pixel.
C9_FailedRegionsZero ==
    (Pooled /\ pc = "done") =>
        \A p \in DOMAIN image :
            returned[1][p] = IF \E roi \in failed : InRoi(p, roi) THEN 0 ELSE StainOf(image[p])

C9_Witness ==
    /\ Pooled /\ pc = "done"
    /\ \E roi \in failed : RegionZero(roi)
    /\ \E p \in DOMAIN image : imDeconvolved[p] # 0

\* C10 as stated: the sequential path catches a transform failure and goes on.
C10_SequentialCatches == (~Pooled /\ failed # {}) => pc # "raised"

\* C11 as stated: a mis-shaped sub-array is as harmless as a failed batch; the
\* pooled call can always go on until it returns.
C11_MisshapenNonFatal ==
    (Pooled /\ misshapen # {} /\ pc # "done") => ENABLED Next

CeilDiv(a, b) == (a + b - 1) \div b

\* C12: the regions are the row-major grid of tile_size blocks: each lies in
\* the image, every pixel is in exactly one of them, there are
\* ceil(H/tile_size) * ceil(W/tile_size), and only the regions of the last
\* block row / block column are smaller than tile_size.  The sequential loop
\* visits the same grid in the same order.  (The list is assigned once, on
\* entry; it is examined where the caller is between super-batches.)
C12_RegionsTileImage ==
    LET nbr == CeilDiv(n_rows, tile_size)
        nbc == CeilDiv(n_cols, tile_size)
        R == region_to_process
    IN  /\ (Pooled /\ pc \in {"batch", "done"}) =>
              /\ Len(R) = nbr * nbc
              /\ \A k \in 1 .. Len(R) :
                    LET br == (k - 1) \div nbc
                        bc == (k - 1) % nbc
                    IN  /\ R[k][1] = br * tile_size /\ R[k][3] = bc * tile_size
                        /\ 0 <= R[k][1] /\ R[k][1] < R[k][2] /\ R[k][2] <= n_rows
                        /\ 0 <= R[k][3] /\ R[k][3] < R[k][4] /\ R[k][4] <= n_cols
                        /\ R[k][2] - R[k][1] <= tile_size
                        /\ R[k][4] - R[k][3] <= tile_size
                        /\ R[k][2] - R[k][1] < tile_size => br = nbr - 1
                        /\ R[k][4] - R[k][3] < tile_size => bc = nbc - 1
              /\ \A p \in DOMAIN image :
                    Cardinality({k \in 1 .. Len(R) : InRoi(p, R[k])}) = 1
        /\ pc = "seq" =>
              /\ row_start % tile_size = 0 /\ col_start % tile_size = 0
              /\ col_start < n_cols
              /\ pbar.n = (row_start \div tile_size) * nbc + col_start \div tile_size
              /\ row_start >= n_rows => pbar.n = nbr * nbc

\* A grid of two block columns whose last column is narrower than tile_size.
C12_Witness ==
    /\ Pooled /\ pc = "done"
    /\ Len(region_to_process) >= 2
    /\ n_cols % tile_size # 0
    /\ RoiOfIdx(1)[4] - RoiOfIdx(1)[3] < tile_size
    /\ RoiOfIdx(0)[4] - RoiOfIdx(0)[3] = tile_size

\* C13 as stated: under fair scheduling the pooled call returns, with every
\* region dispatched, no task outstanding and the result handler at rest.
C13_PooledReturns ==
    (Pooled /\ pc = "entry") ~>
        (pc = "done" /\ submitted = AllIdx /\ pool.cache = {} /\ cb.pc = "idle")

\* The number of regions of super-batch b.
SuperBatchLen(b) ==
    IF b < batch_count - 1 THEN batch_size
    ELSE Len(region_to_process) - (batch_count - 1) * batch_size

\* C14: there are ceil(n/batch_size) super-batches; super-batch b holds the
\* regions b*batch_size, b*batch_size+1, ... of the list, in that order,
\* batch_size of them except possibly in the last; the regions materialized and
\* submitted so far are a prefix of the list that grows by one region per load
\* and per submit, and is the whole list at the return.  (The chunk list only
\* changes while it is loaded; its contents are examined there.)
C14_SuperBatches ==
    (Pooled /\ pc \notin {"entry", "idle"}) =>
        LET n == Len(region_to_process)
            chunk == region_to_process_chuck
            Prefix(k) == {idx \in AllIdx : idx < k}
        IN  /\ batch_count = CeilDiv(n, batch_size)
            /\ pc \in {"load", "submit", "join"} =>
                  /\ batch_id < batch_count
                  /\ batch_size_ = SuperBatchLen(batch_id)
                  /\ batch_size_ >= 1 /\ batch_size_ <= batch_size
                  /\ materialized = Prefix(batch_id * batch_size + Len(chunk))
            /\ pc = "load" =>
                  /\ Len(chunk) = Min(i, batch_size_)
                  /\ \A k \in 1 .. Len(chunk) :
                        /\ chunk[k].idx = batch_id * batch_size + k - 1
                        /\ chunk[k].roi = RoiOfIdx(chunk[k].idx)
                        /\ chunk[k].tile = Slice(image, chunk[k].roi)
                  /\ submitted = Prefix(batch_id * batch_size)
            /\ pc \in {"submit", "join"} =>
                  /\ Len(chunk) = batch_size_
                  /\ submitted = Prefix(batch_id * batch_size + submit_k)
                  /\ submit_k >= 1 =>
                        chunk[submit_k].idx = batch_id * batch_size + submit_k - 1
            /\ pc = "join" => submit_k = batch_size_
            /\ pc = "batch" =>
                  /\ materialized = Prefix(batch_id * batch_size)
                  /\ submitted = materialized
            /\ pc = "done" =>
                  /\ batch_id = batch_count
                  /\ materialized = AllIdx /\ submitted = AllIdx

\* Two super-batches, the last one shorter than batch_size.
C14_Witness ==
    /\ Pooled /\ pc = "done"
    /\ batch_count >= 2
    /\ Len(region_to_process) % batch_size # 0
    /\ materialized = AllIdx /\ submitted = AllIdx

\* --------------------------------------------- the tile assemblers' claims
\* The bounding box of tile k translated by minus the origin (min x, min y).
Translated(k) ==
    dest(tle_bboxes[k], <<SetMin(x_(tle_bboxes)), SetMin(y_(tle_bboxes))>>)
InBox(p, box) == box[1] <= p[1] /\ p[1] < box[2] /\ box[3] <= p[2] /\ p[2] < box[4]
MosaicShape ==
    <<get_mosaic_bounding_box(tle_bboxes).w, get_mosaic_bounding_box(tle_bboxes).h>>
OkTile(k) == np_transpose(read_mosaic(k, tle_bboxes[k], "ok"))

\* The canvas after the tiles k .. upto-1 that were not skipped have been assigned.
RECURSIVE ManualFold(_, _, _)
ManualFold(canvas, k, upto) ==
    IF k >= upto THEN canvas
    ELSE ManualFold(IF k \in skipped_tiles THEN canvas
                    ELSE np_setitem(canvas, dest_raw(tle_bboxes[k]), OkTile(k)),
                    k + 1, upto)

\* C15: the manual tile loop of collagen_quant never raises and can always go
\* on to its last tile; a tile is skipped exactly when its read raised or its
\* assignment did not fit, a skipped tile leaves the canvas as it was, and
\* every other tile is assigned.
C15_ManualLoopSkips ==
    reader = "collagen_quant" =>
        /\ rpc # "raised"
        /\ rpc = "loop" => ENABLED NextAsm
        /\ rpc = "done" => m = NTiles
        /\ rpc \in {"loop", "done"} =>
              /\ written_tiles \cup skipped_tiles = {k \in TileIdx : k < m}
              /\ written_tiles \cap skipped_tiles = {}
              /\ bad_reads \subseteq skipped_tiles
              /\ \A k \in skipped_tiles \ bad_reads :
                    ~np_setitem_ok(image_np, dest_raw(tle_bboxes[k]), OkTile(k))
              /\ image_np = ManualFold(np_setitem(np_zeros(MosaicShape),
                                                  <<0, PatchEnd0, 0, PatchEnd1>>, Scalar(1)),
                                       0, m)

\* The first tile's read went wrong and it was skipped; the second was assigned.
C15_Witness ==
    /\ reader = "collagen_quant" /\ rpc = "done"
    /\ NTiles >= 2
    /\ 0 \in bad_reads /\ 0 \in skipped_tiles
    /\ 1 \in written_tiles

\* C16 as stated: a failed read_tile does not abort image_read.
C16_ReadFailureNonFatal ==
    (reader = "image_read" /\ bad_reads # {}) => rpc # "raised"

\* C17 as stated: the canvas is all zero when tile writing starts, and in the
\* returned canvas an element in the rectangle of a failed tile and in no
\* rectangle of a written tile is zero.
C17_ZeroFill ==
    reader \in {"image_read", "collagen_quant"} =>
        /\ (rpc \in {"imap", "merge", "loop"} /\ m = 0 /\ written_tiles = {}) =>
              \A p \in DOMAIN image_np.data : image_np.data[p] = 0
        /\ rpc = "done" =>
              \A p \in DOMAIN canvas_out[1].data :
                 (/\ \E k \in bad_reads \cup skipped_tiles : InBox(p, Translated(k))
                  /\ ~\E k \in written_tiles : InBox(p, Translated(k)))
                 => canvas_out[1].data[p] = 0

\* C18 as stated: every destination rectangle a reader computes is the tile's
\* bounding box translated by minus the origin, and lies within the canvas.
C18_TranslatedDestinations ==
    reader \in {"image_read", "collagen_quant"} =>
        \A d \in dests :
            /\ d[2] = Translated(d[1])
            /\ 0 <= d[2][1] /\ d[2][2] <= image_np.shape[1]
            /\ 0 <= d[2][3] /\ d[2][4] <= image_np.shape[2]

\* C19 as stated: the canvas of profile_sequential_loading is (max(y+h) - min y)
\* high and (max(x+w) - min x) wide, and every translated tile rectangle fits.
C19_ProfileCanvasSize ==
    (reader = "profile_sequential_loading" /\ rpc \in {"loop", "done"}) =>
        /\ image_np.shape = <<SetMax(bottom_(tle_bboxes)) - SetMin(y_(tle_bboxes)),
                              SetMax(right_(tle_bboxes)) - SetMin(x_(tle_bboxes))>>
        /\ \A k \in TileIdx :
              /\ 0 <= dest_yx(tle_bboxes[k], origin)[1]
              /\ dest_yx(tle_bboxes[k], origin)[2] <= image_np.shape[1]
              /\ 0 <= dest_yx(tle_bboxes[k], origin)[3]
              /\ dest_yx(tle_bboxes[k], origin)[4] <= image_np.shape[2]

\* The canvas after the tiles k, k+1, ... have been merged in index order.
RECURSIVE MergeFrom(_, _)
MergeFrom(canvas, k) ==
    IF k >= NTiles THEN canvas
    ELSE MergeFrom(np_setitem(canvas, Translated(k), OkTile(k)), k + 1)

\* C20: when every read succeeds, the canvas image_read returns is the zero
\* canvas with the tiles merged in index order: a function of the container
\* alone, whatever the worker count and the order the reads ended in.
C20_CanvasIndependentOfSchedule ==
    (reader = "image_read" /\ rpc = "done" /\ bad_reads = {}) =>
        canvas_out = <<MergeFrom(np_zeros(MosaicShape), 0)>>

\* Two overlapping tiles, the read of the second ending before that of the first.
C20_Witness ==
    /\ reader = "image_read" /\ rpc = "done" /\ bad_reads = {}
    /\ n_workers >= 2 /\ overtaken
    /\ NTiles >= 2
    /\ tle_bboxes[0].x < tle_bboxes[1].x + tle_bboxes[1].w
    /\ tle_bboxes[1].x < tle_bboxes[0].x + tle_bboxes[0].w
    /\ \E p \in DOMAIN OkTile(0).data : OkTile(0).data[p] # 0
    /\ canvas_out[1].data[<<tle_bboxes[1].x - SetMin(x_(tle_bboxes)), 0>>] = OkTile(1).data[<<0, 0>>]

\* C29 as stated: when the sequential loop has run to its end, the progress
\* counter equals the total declared for it.
C29_SeqTotalMatches == (~Pooled /\ pc = "done") => pbar.n = pbar.total

\* The failed regions among those of super-batch b.
FailedInBatch(b) ==
    {idx \in AllIdx : SuperBatchOf(idx) = b /\ RoiOfIdx(idx) \in failed}

\* C30: the progress bar of a super-batch is declared with the number of tasks
\* of that super-batch; its counter only grows, by one per result callback of a
\* task of the same super-batch, and never passes the total; once the
\* super-batch is joined, counter plus failed tasks is the number submitted.
C30_PooledCounter ==
    /\ [](Pooled =>
            /\ pc \in {"submit", "join"} =>
                  /\ pbar.batch = batch_id
                  /\ pbar.total = Len(region_to_process_chuck)
                  /\ pbar.n <= pbar.total
                  /\ pbar.n + Cardinality(FailedInBatch(batch_id)) <= submit_k
            /\ pc = "join" => submit_k = pbar.total
            /\ (pc \in {"batch", "done"} /\ batch_id >= 1) =>
                  /\ pbar.batch = batch_id - 1
                  /\ pbar.total = SuperBatchLen(pbar.batch)
                  /\ pbar.n + Cardinality(FailedInBatch(pbar.batch)) = pbar.total)
    /\ [][(Pooled /\ pbar' # pbar) =>
            \/ pc = "load" /\ pc' = "submit" /\ pbar'.n = 0
            \/ /\ pbar'.n = pbar.n + 1
               /\ pbar'.total = pbar.total /\ pbar'.batch = pbar.batch
               /\ cb'.pc = "acquire"
               /\ SuperBatchOf(cb'.res.job) = pbar.batch]_vars

\* A joined super-batch of two tasks, one of which failed.
C30_Witness ==
    /\ Pooled /\ pc \in {"batch", "done"} /\ batch_id >= 1
    /\ pbar.total = 2 /\ pbar.n = 1
    /\ Cardinality(FailedInBatch(pbar.batch)) = 1

\* C27: in image_read the canvas is assigned only by the caller's merge loop,
\* which starts when the result of every read_tile task has been collected and
\* takes the tiles in index order; no step of a worker touches the canvas.  In
\* the returned canvas a pixel covered by several tiles holds the pixel of the
\* one with the highest index, however the reads were scheduled.
C27_MergeAfterReads ==
    /\ [](reader = "image_read" =>
            /\ rpc = "imap" =>
                  /\ written_tiles = {} /\ m = 0
                  /\ image_np = np_zeros(MosaicShape)
            /\ rpc \in {"merge", "done"} =>
                  /\ Len(results) = NTiles
                  /\ \A k \in TileIdx : reads[k].status = "taken"
                  /\ written_tiles = {k \in TileIdx : k < m}
            /\ rpc = "done" =>
                  /\ m = NTiles
                  /\ \A k \in TileIdx : \A p \in DOMAIN image_np.data :
                        (/\ InTarget(image_np, results[k + 1].box, p)
                         /\ \A j \in TileIdx :
                               j > k => ~InTarget(image_np, results[j + 1].box, p))
                        => canvas_out[1].data[p] =
                              np_setitem(image_np, Translated(k), OkTile(k)).data[p])
    /\ [][(reader = "image_read" /\ image_np' # image_np /\ rpc # "start") =>
            /\ rpc = "merge" /\ reads' = reads /\ results' = results
            /\ \A k \in TileIdx : reads[k].status = "taken"
            /\ m' = m + 1 /\ written_tiles' = written_tiles \cup {m}
            /\ image_np' = np_setitem(image_np, Translated(m), OkTile(m))]_vars
    /\ [][(reader = "image_read" /\ rpc = "imap") => image_np' = image_np]_vars

\* Two overlapping tiles with different pixels where they overlap, read by two
\* workers, the second read ending first; the canvas holds the second tile's pixel.
C27_Witness ==
    /\ reader = "image_read" /\ rpc = "done"
    /\ n_workers >= 2 /\ overtaken
    /\ NTiles = 2 /\ written_tiles = {0, 1}
    /\ tle_bboxes[0].x = tle_bboxes[1].x
    /\ OkTile(0).data[<<0, 0>>] # OkTile(1).data[<<0, 0>>]
    /\ canvas_out[1].data[<<0, 0>>] = OkTile(1).data[<<0, 0>>]

\* C21 as stated: with a container without tiles image_read never returns a
\* canvas, and main of visualize_tile_pattern never goes on to the drawing.
C21_EmptyFailsFast ==
    /\ (reader = "image_read" /\ NTiles = 0) => (rpc # "done" /\ canvas_out = <<>>)
    /\ (reader = "visualize_tile_pattern" /\ tile_bboxes = <<>>) => rpc # "done"

\* C22: when the container's dimensions hold no 'M', load_tile_bboxes and
\* profile_sequential_loading raise as their first step: no bounding box has
\* been asked for, no output array allocated, no tile read or written, and
\* nothing is returned.
C22_NoMosaicRaisesFirst ==
    (reader \in Discoverers /\ ~has_M) =>
        /\ rpc \in {"start", "raised"}
        /\ rpc = "start" => ENABLED NextAsm
        /\ queried = {}
        /\ image_np = NoArray
        /\ m = 0 /\ bad_reads = {} /\ dests = {}
        /\ written_tiles = {} /\ skipped_tiles = {}
        /\ tile_bboxes = <<>>
        /\ canvas_out = <<>>

\* profile_sequential_loading has raised on a container of two tiles without 'M'.
C22_Witness ==
    /\ reader = "profile_sequential_loading" /\ ~has_M
    /\ NTiles = 2
    /\ rpc = "raised"

\* --------------------------------------- the claims of iterate_over_regions
\* Element <<r, c>> of the array lies in the window w = (x, y, x_max, y_max, ...).
InWindow(r, c, w) == w[2] <= r /\ r < w[4] /\ w[1] <= c /\ c < w[3]
IsPrefix(s, u) == Len(s) <= Len(u) /\ \A k \in 1 .. Len(s) : s[k] = u[k]

\* C23 as stated: with overlap_size = 0 the windows of an exhausted generator
\* are pairwise disjoint and cover the whole array.
C23_WindowsPartition ==
    \A g \in Requests :
        (overlap_size = 0 /\ gen[g].pc = "done") =>
            \A r \in 0 .. image_height - 1 : \A c \in 0 .. image_width - 1 :
                Cardinality({k \in 1 .. Len(yielded[g]) : InWindow(r, c, yielded[g][k])}) = 1

\* C24: for 0 <= overlap_size < tile_size the windows come in row-major order,
\* the first at (0, 0) and each next one either one step to the right in the
\* same row or, when the row is finished, at the start of the row one step
\* down; the starts are multiples of the step and every window lies in the array.
C24_RowMajorInBounds ==
    \A g \in Requests :
        overlap_size < seg_tile_size =>
            LET ws == yielded[g]
            IN  /\ Len(ws) >= 1 => (ws[1][1] = 0 /\ ws[1][2] = 0)
                /\ \A k \in 1 .. Len(ws) :
                      /\ ws[k][1] % range_step = 0 /\ ws[k][2] % range_step = 0
                      /\ 0 <= ws[k][1] /\ ws[k][1] < ws[k][3] /\ ws[k][3] <= image_width
                      /\ 0 <= ws[k][2] /\ ws[k][2] < ws[k][4] /\ ws[k][4] <= image_height
                /\ \A k \in 1 .. Len(ws) - 1 :
                      \/ /\ ws[k + 1][2] = ws[k][2]
                         /\ ws[k + 1][1] = ws[k][1] + range_step
                      \/ /\ ws[k + 1][2] = ws[k][2] + range_step
                         /\ ws[k + 1][1] = 0
                         /\ ws[k][1] + range_step + seg_tile_size > image_width
                /\ (gen[g].pc = "done" /\ Len(ws) >= 1) =>
                      /\ ws[Len(ws)][1] + range_step + seg_tile_size > image_width
                      /\ ws[Len(ws)][2] + range_step + seg_tile_size > image_height

\* Two rows of two overlapping windows each.
C24_Witness ==
    /\ overlap_size >= 1 /\ overlap_size < seg_tile_size
    /\ gen[1].pc = "done"
    /\ Len(yielded[1]) = 4
    /\ yielded[1][2][2] = 0 /\ yielded[1][2][1] > 0
    /\ yielded[1][3][2] > 0 /\ yielded[1][3][1] = 0

C26_MaskOptional ==
    \A g \in Requests :
        overlap_size < seg_tile_size =>
            /\ gen[g].pc # "raised"
            /\ \A k \in 1 .. Len(yielded[g]) :
                  IF mask = "None" THEN Len(yielded[g][k]) = 5
                  ELSE Len(yielded[g][k]) = 6 /\ yielded[g][k][5] = yielded[g][k][6]

\* C28 as stated: every yielded window is a full tile, whatever the arguments.
C28_FullTilesAlways ==
    \A g \in Requests :
        /\ \A k \in 1 .. Len(yielded[g]) :
              /\ yielded[g][k][3] - yielded[g][k][1] = seg_tile_size
              /\ yielded[g][k][4] - yielded[g][k][2] = seg_tile_size
        /\ (image_height < seg_tile_size \/ image_width < seg_tile_size) =>
              yielded[g] = <<>>

\* C28 amended: for 0 <= overlap_size < tile_size every yielded window is
\* tile_size wide and high and its tile has that many rows and columns; an
\* array lower or narrower than tile_size yields no window.
C28_FullTiles ==
    \A g \in Requests :
        overlap_size < seg_tile_size =>
            /\ \A k \in 1 .. Len(yielded[g]) :
                  /\ yielded[g][k][3] - yielded[g][k][1] = seg_tile_size
                  /\ yielded[g][k][4] - yielded[g][k][2] = seg_tile_size
                  /\ yielded[g][k][5].rows[2] - yielded[g][k][5].rows[1] = seg_tile_size
                  /\ yielded[g][k][5].cols[2] - yielded[g][k][5].cols[1] = seg_tile_size
            /\ (image_height < seg_tile_size \/ image_width < seg_tile_size) =>
                  (yielded[g] = <<>> /\ gen[g].pc \in {"none", "created", "done", "raised"})

\* An exhausted request over an array whose width is no multiple of the step:
\* it yielded full tiles and left the remainder out.
C28_Witness ==
    /\ overlap_size < seg_tile_size
    /\ gen[1].pc = "done" /\ Len(yielded[1]) >= 1
    /\ image_width % seg_tile_size # 0
    /\ yielded[1][Len(yielded[1])][3] < image_width

====
